---- MODULE Spec2Model ----
(***************************************************************************)
(* A model of package shift (src/shift.go): Load binds the fields of a     *)
(* struct from the process environment first and from the section of a    *)
(* decoded TOML file second.                                               *)
(*                                                                         *)
(* A Go string is a sequence of one-character strings, so that toCamel     *)
(* and strings.ToUpper work on it character by character.  A 64-bit        *)
(* integer is its two's-complement bit pattern, four 16-bit limbs with     *)
(* the least significant first, so that int64 -> uint64 casts and the      *)
(* 32-bit bounds are what they are in Go.                                  *)
(***************************************************************************)
EXTENDS Integers, Sequences, FiniteSets, TLC

VARIABLES
    pc,          \* position in Load: "Load", "decode", "extract", "bind", "done"
    c,           \* shape of Load's first argument
    typ,         \* the struct type: a sequence of field descriptors
    val,         \* the struct value: one Go value per field
    val0,        \* the struct value when Load was called
    environ,     \* the process environment: name -> value
    file,        \* what testHarnessDecodeFile will return for the path
    envPrefix,   \* Load's envPrefix argument
    env,         \* Load's env argument
    sizeOfInt,   \* bytes of the native int
    i,           \* Load's local i, the decoded file
    m,           \* Load's local m, the section handed to bind
    fi,          \* bind's loop index (1-based)
    result,      \* "none" while running, then "nil", "error" or "panic"
    err,         \* the error returned when result = "error"
    getenvLog,   \* the os.Getenv calls made: <<field index, name>>
    configLog,   \* the config[key] lookups made: <<field index, key>>
    decodeCalls, \* number of calls of testHarnessDecodeFile
    camelIn,     \* toCamel's argument
    camelOut,    \* toCamel's result
    camelPc,     \* "call" before toCamel ran, "ret" after
    convFn,      \* the bounds converter called: "int64ToInt" or "uint64ToUint"
    convIn,      \* its argument, a 64-bit pattern
    convOut,     \* what it returned
    convPc       \* "call" before the converter ran, "ret" after

vars == <<pc, c, typ, val, val0, environ, file, envPrefix, env, sizeOfInt, i, m,
          fi, result, err, getenvLog, configLog, decodeCalls,
          camelIn, camelOut, camelPc, convFn, convIn, convOut, convPc>>

loadVars == <<pc, c, typ, val, val0, environ, file, envPrefix, env, sizeOfInt,
              i, m, fi, result, err, getenvLog, configLog, decodeCalls>>

camelVars == <<camelIn, camelOut, camelPc>>

convVars == <<convFn, convIn, convOut, convPc>>

---------------------------------------------------------------------------
(* Bounds *)

\* the longest struct type Load is given
MaxFields == 2

\* the longest identifier toCamel is given, besides the names of the tests
MaxNameLen == 3

---------------------------------------------------------------------------
(* Characters and strings *)

Lowers == <<"a","b","c","d","e","f","g","h","i","j","k","l","m",
            "n","o","p","q","r","s","t","u","v","w","x","y","z">>

Uppers == <<"A","B","C","D","E","F","G","H","I","J","K","L","M",
            "N","O","P","Q","R","S","T","U","V","W","X","Y","Z">>

Digits == <<"0","1","2","3","4","5","6","7","8","9">>

IsUpper(ch) == \E k \in 1..26 : Uppers[k] = ch

IsLower(ch) == \E k \in 1..26 : Lowers[k] = ch

IsDigit(ch) == \E k \in 1..10 : Digits[k] = ch

DigitVal(ch) == (CHOOSE k \in 1..10 : Digits[k] = ch) - 1

ToLower(ch) == IF IsUpper(ch) THEN Lowers[CHOOSE k \in 1..26 : Uppers[k] = ch] ELSE ch

ToUpperCh(ch) == IF IsLower(ch) THEN Uppers[CHOOSE k \in 1..26 : Lowers[k] = ch] ELSE ch

\* strings.ToUpper
ToUpper(s) == [k \in 1..Len(s) |-> ToUpperCh(s[k])]

RECURSIVE toCamelLoop(_, _, _, _)
\* the loop of toCamel: r the runes, k the (1-based) index, last, b the buffer
toCamelLoop(r, k, last, b) ==
    IF k > Len(r) THEN b
    ELSE LET upper == IsUpper(r[k])
             sep   == IF k # 1 /\ upper
                      THEN IF ~last THEN <<"_">>
                           ELSE IF k + 1 <= Len(r) /\ ~IsUpper(r[k + 1]) THEN <<"_">>
                           ELSE <<>>
                      ELSE <<>>
         IN  toCamelLoop(r, k + 1, upper, b \o sep \o <<ToLower(r[k])>>)

toCamel(s) == toCamelLoop(s, 1, FALSE, <<>>)

---------------------------------------------------------------------------
(* 64-bit integers as bit patterns *)

Base == 2^16

Half == 2^15

Zero64 == <<0, 0, 0, 0>>

\* math.MaxInt32, math.MinInt32 and math.MaxUint32 as 64-bit patterns
MaxInt32 == <<Base - 1, Half - 1, 0, 0>>

MinInt32 == <<0, Half, Base - 1, Base - 1>>

MaxUint32 == <<Base - 1, Base - 1, 0, 0>>

MaxInt64 == <<Base - 1, Base - 1, Base - 1, Half - 1>>

\* 2^63, the magnitude of the least int64, and 2^31
Pow63 == <<0, 0, 0, Half>>

Pow31 == <<0, Half, 0, 0>>

\* the small natural n (below Base) as a 64-bit pattern
Small64(n) == <<n, 0, 0, 0>>

\* unsigned x < y
LessU(x, y) ==
    \E k \in 1..4 : x[k] < y[k] /\ \A j \in (k + 1)..4 : x[j] = y[j]

IsNeg64(x) == x[4] >= Half

\* signed x < y
LessS(x, y) ==
    IF IsNeg64(x) # IsNeg64(y) THEN IsNeg64(x) ELSE LessU(x, y)

\* x * k + d for naturals k, d below Base, with the carry out of 64 bits
MulAdd(x, k, d) ==
    LET t1 == x[1] * k + d
        t2 == x[2] * k + (t1 \div Base)
        t3 == x[3] * k + (t2 \div Base)
        t4 == x[4] * k + (t3 \div Base)
    IN  [v |-> <<t1 % Base, t2 % Base, t3 % Base, t4 % Base>>, carry |-> t4 \div Base]

\* -x in two's complement
Neg64(x) ==
    LET n1 == (Base - 1 - x[1]) + 1
        n2 == (Base - 1 - x[2]) + (n1 \div Base)
        n3 == (Base - 1 - x[3]) + (n2 \div Base)
        n4 == (Base - 1 - x[4]) + (n3 \div Base)
    IN  <<n1 % Base, n2 % Base, n3 % Base, n4 % Base>>

\* the small integer n (|n| below Base) as an int64
Int64Of(n) == IF n >= 0 THEN Small64(n) ELSE Neg64(Small64(-n))

---------------------------------------------------------------------------
(* Go values.  One record shape for every value: kind is the Go type, and  *)
(* the payload of that kind is in s (string), b (bool), n (any integer or  *)
(* duration, as a 64-bit pattern), f (float64: <<mantissa, number of       *)
(* decimals>>), t (time.Time: <<Y, M, D, h, m, s>> in UTC), l ([]string)   *)
(* or a ([]interface{}: per element, whether it is a string, and it)       *)

ZeroTime == <<1, 1, 1, 0, 0, 0>>

Blank == [kind |-> "nil", s |-> <<>>, b |-> FALSE, n |-> Zero64, f |-> <<0, 0>>,
          t |-> ZeroTime, l |-> <<>>, a |-> <<>>]

VString(x) == [Blank EXCEPT !.kind = "string", !.s = x]

VBool(x) == [Blank EXCEPT !.kind = "bool", !.b = x]

\* an integer of Go type ty (int, int64, uint, uint64, time.Duration)
VInt(ty, x) == [Blank EXCEPT !.kind = ty, !.n = x]

VFloat(x) == [Blank EXCEPT !.kind = "float64", !.f = x]

VTime(x) == [Blank EXCEPT !.kind = "time.Time", !.t = x]

VStrings(x) == [Blank EXCEPT !.kind = "[]string", !.l = x]

\* what the TOML decoder produces besides the scalars: an array, a sub-table
VArray(x) == [Blank EXCEPT !.kind = "[]interface {}", !.a = x]

VTable == [Blank EXCEPT !.kind = "map[string]interface {}"]

\* the outcome of a conversion: a value, an error, or a run-time panic
Ok(v) == [st |-> "ok", v |-> v, cause |-> "nil"]

Fail(cause) == [st |-> "err", v |-> Blank, cause |-> cause]

Panic(cause) == [st |-> "panic", v |-> Blank, cause |-> cause]

\* reflect.Type.Kind of the field types of the model
Kind(ty) ==
    CASE ty = "string"        -> "String"
      [] ty = "bool"          -> "Bool"
      [] ty = "int"           -> "Int"
      [] ty = "int64"         -> "Int64"
      [] ty = "time.Duration" -> "Int64"
      [] ty = "uint"          -> "Uint"
      [] ty = "uint64"        -> "Uint64"
      [] ty = "float64"       -> "Float64"
      [] ty = "time.Time"     -> "Struct"
      [] ty = "[]string"      -> "Slice"
      [] ty = "int32"         -> "Int32"

typeTime == "time.Time"

typeDuration == "time.Duration"

typeStringArr == "[]string"

---------------------------------------------------------------------------
(* The standard library's parsers, on the strings the model draws *)

RECURSIVE ParseDigits(_, _, _)
\* the decimal digits s[k..] appended to acc, and whether 64 bits overflowed
ParseDigits(s, k, acc) ==
    IF k > Len(s) THEN acc
    ELSE LET r == MulAdd(acc.v, 10, DigitVal(s[k]))
         IN  ParseDigits(s, k + 1, [v |-> r.v, ovf |-> acc.ovf \/ r.carry # 0])

\* strconv.ParseUint(s, 10, bitSize)
ParseUint(s, bitSize) ==
    IF s = <<>> \/ \E k \in 1..Len(s) : ~IsDigit(s[k]) THEN Fail("syntax")
    ELSE LET r == ParseDigits(s, 1, [v |-> Zero64, ovf |-> FALSE])
         IN  IF r.ovf \/ (bitSize = 32 /\ LessU(MaxUint32, r.v)) THEN Fail("range")
             ELSE Ok(VInt("uint64", r.v))

\* strconv.ParseInt(s, 10, bitSize)
ParseInt(s, bitSize) ==
    IF s = <<>> THEN Fail("syntax")
    ELSE LET neg    == s[1] = "-"
             digits == IF s[1] \in {"+", "-"} THEN Tail(s) ELSE s
             un     == ParseUint(digits, bitSize)
             cutoff == IF bitSize = 32 THEN Pow31 ELSE Pow63
         IN  IF un.st # "ok" THEN un
             ELSE IF ~neg /\ ~LessU(un.v.n, cutoff) THEN Fail("range")
             ELSE IF neg /\ LessU(cutoff, un.v.n) THEN Fail("range")
             ELSE Ok(VInt("int64", IF neg THEN Neg64(un.v.n) ELSE un.v.n))

\* the number of leading decimal digits of s
RECURSIVE DigitPrefix(_, _)
DigitPrefix(s, k) ==
    IF k <= Len(s) /\ IsDigit(s[k]) THEN DigitPrefix(s, k + 1) ELSE k - 1

\* the factors of a unit of time.ParseDuration, in nanoseconds
UnitFactors(u) ==
    CASE u = <<"n", "s">> -> <<>>
      [] u = <<"u", "s">> -> <<1000>>
      [] u = <<"m", "s">> -> <<1000, 1000>>
      [] u = <<"s">>      -> <<1000, 1000, 1000>>
      [] u = <<"m">>      -> <<60, 1000, 1000, 1000>>
      [] u = <<"h">>      -> <<3600, 1000, 1000, 1000>>
      [] OTHER            -> <<0>>

RECURSIVE MulAll(_, _, _)
MulAll(acc, fs, k) ==
    IF k > Len(fs) THEN acc
    ELSE LET r == MulAdd(acc.v, fs[k], 0)
         IN  MulAll([v |-> r.v, ovf |-> acc.ovf \/ r.carry # 0], fs, k + 1)

\* time.ParseDuration(s), for s of the form [sign] digits unit, "0", or malformed
ParseDuration(s) ==
    LET neg  == s # <<>> /\ s[1] = "-"
        body == IF s # <<>> /\ s[1] \in {"+", "-"} THEN Tail(s) ELSE s
        nd   == DigitPrefix(body, 1)
        unit == SubSeq(body, nd + 1, Len(body))
        num  == ParseDigits(SubSeq(body, 1, nd), 1, [v |-> Zero64, ovf |-> FALSE])
        d    == MulAll(num, UnitFactors(unit), 1)
    IN  IF body = <<"0">> THEN Ok(VInt(typeDuration, Zero64))
        ELSE IF body = <<>> \/ nd = 0 THEN Fail("invalid duration")
        ELSE IF unit = <<>> THEN Fail("missing unit in duration")
        ELSE IF UnitFactors(unit) = <<0>> THEN Fail("unknown unit in duration")
        ELSE IF d.ovf \/ LessU(Pow63, d.v) THEN Fail("invalid duration")
        ELSE IF neg THEN Ok(VInt(typeDuration, Neg64(d.v)))
        ELSE IF LessU(MaxInt64, d.v) THEN Fail("invalid duration")
        ELSE Ok(VInt(typeDuration, d.v))

RECURSIVE DecimalOf(_, _, _)
\* the natural number written by the digits s[k..], after acc
DecimalOf(s, k, acc) ==
    IF k > Len(s) THEN acc ELSE DecimalOf(s, k + 1, acc * 10 + DigitVal(s[k]))

RECURSIVE Normal(_, _)
\* mantissa and number of decimals without trailing zero decimals
Normal(mant, dec) ==
    IF dec > 0 /\ mant % 10 = 0 THEN Normal(mant \div 10, dec - 1) ELSE <<mant, dec>>

\* strconv.ParseFloat(s, 64), for s of the form [sign] digits [. digits] with at
\* most 8 digits, or without any digit
ParseFloat(s) ==
    LET neg  == s # <<>> /\ s[1] = "-"
        body == IF s # <<>> /\ s[1] \in {"+", "-"} THEN Tail(s) ELSE s
        nd   == DigitPrefix(body, 1)
        rest == SubSeq(body, nd + 1, Len(body))
        frac == IF rest # <<>> /\ rest[1] = "." THEN Tail(rest) ELSE <<>>
        mant == DecimalOf(SubSeq(body, 1, nd) \o frac, 1, 0)
    IN  IF body = <<>> \/ (nd = 0 /\ frac = <<>>) THEN Fail("syntax")
        ELSE IF rest # <<>> /\ rest[1] # "." THEN Fail("syntax")
        ELSE IF \E k \in 1..Len(frac) : ~IsDigit(frac[k]) THEN Fail("syntax")
        ELSE Ok(VFloat(Normal(IF neg THEN -mant ELSE mant, Len(frac))))

DaysIn(month, year) ==
    IF month = 2
    THEN IF year % 4 = 0 /\ (year % 100 # 0 \/ year % 400 = 0) THEN 29 ELSE 28
    ELSE IF month \in {4, 6, 9, 11} THEN 30 ELSE 31

\* time.Parse(time.RFC3339, s), for s of the form YYYY-MM-DDThh:mm:ssZ, or not of
\* RFC 3339 at all
ParseTime(s) ==
    LET num(a, b) == DecimalOf(SubSeq(s, a, b), 1, 0)
        shaped == /\ Len(s) = 20
                  /\ \A k \in {1, 2, 3, 4, 6, 7, 9, 10, 12, 13, 15, 16, 18, 19} : IsDigit(s[k])
                  /\ s[5] = "-" /\ s[8] = "-" /\ s[11] = "T"
                  /\ s[14] = ":" /\ s[17] = ":" /\ s[20] = "Z"
    IN  IF ~shaped THEN Fail("cannot parse")
        ELSE IF \/ num(6, 7) \notin 1..12
                \/ num(9, 10) \notin 1..DaysIn(num(6, 7), num(1, 4))
                \/ num(12, 13) > 23 \/ num(15, 16) > 59 \/ num(18, 19) > 59
             THEN Fail("out of range")
        ELSE Ok(VTime(<<num(1, 4), num(6, 7), num(9, 10),
                        num(12, 13), num(15, 16), num(18, 19)>>))

---------------------------------------------------------------------------
(* The conversions of src/shift.go *)

\* int64ToInt, with the 32-bit bounds applied whatever the native width
int64ToIntAlways32(n) ==
    IF LessS(MaxInt32, n) THEN Fail("integer too big")
    ELSE IF LessS(n, MinInt32) THEN Fail("integer too small")
    ELSE Ok(VInt("int", n))

\* uint64ToUint, with the argument compared as a signed value
uint64ToUintSigned(u) ==
    IF sizeOfInt = 8 THEN Ok(VInt("uint", u))
    ELSE IF LessS(MaxUint32, u) THEN Fail("unsigned integer too big")
    ELSE Ok(VInt("uint", u))

\* int64ToInt: the error, or nil
int64ToInt(n) ==
    IF sizeOfInt = 8 THEN Ok(VInt("int", n))
    ELSE IF LessS(MaxInt32, n) THEN Fail("integer too big")
    ELSE IF LessS(n, MinInt32) THEN Fail("integer too small")
    ELSE Ok(VInt("int", n))

\* uint64ToUint: the error, or nil
uint64ToUint(u) ==
    IF sizeOfInt = 8 THEN Ok(VInt("uint", u))
    ELSE IF LessU(MaxUint32, u) THEN Fail("unsigned integer too big")
    ELSE Ok(VInt("uint", u))

\* assignFromEnv: the value set in a field of type fieldType, or the error
assignFromEnv(envVal, fieldType) ==
    LET k == Kind(fieldType)
    IN  CASE k = "String" -> Ok(VString(envVal))
          [] k = "Bool" ->
                IF envVal # <<"t","r","u","e">> /\ envVal # <<"f","a","l","s","e">>
                THEN Fail("invalid value for bool")
                ELSE Ok(VBool(envVal = <<"t","r","u","e">>))
          [] k = "Int" ->
                LET r == ParseInt(envVal, sizeOfInt * 8)
                IN  IF r.st # "ok" THEN r ELSE Ok(VInt(fieldType, r.v.n))
          [] k = "Int64" ->
                IF fieldType = typeDuration
                THEN LET dur == ParseDuration(envVal)
                     IN  IF dur.st # "ok" THEN dur ELSE Ok(VInt(fieldType, dur.v.n))
                ELSE LET r == ParseInt(envVal, 64)
                     IN  IF r.st # "ok" THEN r ELSE Ok(VInt(fieldType, r.v.n))
          [] k = "Uint" ->
                LET u == ParseUint(envVal, sizeOfInt * 8)
                IN  IF u.st # "ok" THEN u ELSE Ok(VInt(fieldType, u.v.n))
          [] k = "Uint64" ->
                LET u == ParseUint(envVal, 64)
                IN  IF u.st # "ok" THEN u ELSE Ok(VInt(fieldType, u.v.n))
          [] k = "Float64" -> ParseFloat(envVal)
          [] k = "Struct" ->
                IF fieldType # typeTime THEN Fail("unsupported struct type")
                ELSE ParseTime(envVal)
          [] OTHER -> Fail("unsupported struct type")

\* the []string that assignFromIntf makes of a decoded array
CoerceStrings(arr) == [k \in 1..Len(arr) |-> IF arr[k].str THEN arr[k].s ELSE <<>>]

\* assignFromIntf: the value set in a field of type fieldType, the error, or the
\* panic of reflect.Value.Set
assignFromIntf(v, fieldType) ==
    LET k        == Kind(fieldType)
        mismatch == Fail("unsupported conversion")
    IN  CASE k = "String" ->
                IF v.kind = "string" THEN Ok(VString(v.s)) ELSE mismatch
          [] k = "Bool" ->
                IF v.kind = "bool" THEN Ok(VBool(v.b)) ELSE mismatch
          [] k = "Int" ->
                IF v.kind = "int64"
                THEN IF int64ToInt(v.n).st # "ok" THEN int64ToInt(v.n)
                     ELSE Ok(VInt(fieldType, v.n))
                ELSE mismatch
          [] k = "Int64" ->
                IF fieldType = typeDuration
                THEN IF v.kind = "string"
                     THEN LET d == ParseDuration(v.s)
                          IN  IF d.st # "ok" THEN d ELSE Ok(VInt(fieldType, d.v.n))
                     ELSE mismatch
                ELSE IF v.kind = "int64"
                     THEN IF int64ToInt(v.n).st # "ok" THEN int64ToInt(v.n)
                          ELSE Ok(VInt(fieldType, v.n))
                     ELSE mismatch
          [] k = "Uint" ->
                IF v.kind = "int64"
                THEN IF uint64ToUint(v.n).st # "ok" THEN uint64ToUint(v.n)
                     ELSE Ok(VInt(fieldType, v.n))
                ELSE mismatch
          [] k = "Uint64" ->
                IF v.kind = "int64" THEN Ok(VInt(fieldType, v.n)) ELSE mismatch
          [] k = "Float64" ->
                IF v.kind = "float64" THEN Ok(VFloat(v.f)) ELSE mismatch
          [] k = "Struct" ->
                IF fieldType = typeTime
                THEN IF v.kind = "time.Time" THEN Ok(VTime(v.t))
                     ELSE Panic("reflect.Set: value is not assignable to type time.Time")
                ELSE mismatch
          [] k = "Slice" ->
                IF fieldType = typeStringArr /\ v.kind = "[]interface {}"
                THEN Ok(VStrings(CoerceStrings(v.a)))
                ELSE mismatch
          [] OTHER -> mismatch

\* getKeyName, without the case of the tag "-"
getKeyNameNoOmit(f) ==
    IF Len(f.Tag) # 0 THEN f.Tag ELSE toCamel(f.Name)

\* getKeyName: the key of struct field f
getKeyName(f) ==
    IF f.Tag = <<"-">> THEN <<>>
    ELSE IF Len(f.Tag) # 0 THEN f.Tag
    ELSE toCamel(f.Name)

\* envKeyOf, uppercasing the key alone
envKeyOfKeyUpper(prefix, key) ==
    IF Len(prefix) # 0 THEN prefix \o <<"_">> \o ToUpper(key) ELSE ToUpper(key)

\* the name bind looks up in the environment for key
envKeyOf(prefix, key) ==
    ToUpper(IF Len(prefix) # 0 THEN prefix \o <<"_">> \o key ELSE key)

\* os.Getenv
Getenv(name) == IF name \in DOMAIN environ THEN environ[name] ELSE <<>>

---------------------------------------------------------------------------
(* Load and bind *)

NoErr == [kind |-> "nil", key |-> <<>>, cause |-> "nil"]

\* a nil map[string]interface{}, and map m
NilMap == [nil |-> TRUE, kv |-> <<>>]

MapOf(kv) == [nil |-> FALSE, kv |-> kv]

\* Load's check of c: the shape is "*struct", "struct", "*int", "int" or "nil"
checkTarget(shape) ==
    IF shape = "nil" THEN "panic"
    ELSE IF shape \notin {"*struct", "*int"} THEN "error"
    ELSE IF shape # "*struct" THEN "error"
    ELSE "ok"

\* decodeFails, without the exception of os.IsNotExist
decodeFailsAlways(e) == e # "nil"

\* whether Load returns the decoder's error e ("nil", "notexist" or "other")
decodeFails(e) == e # "nil" /\ e # "notexist"

\* sectionOf, with the keys of another section added to those of name's
sectionOfMerged(d, name) ==
    IF d.nil THEN Ok(NilMap)
    ELSE IF name \notin DOMAIN d.top
         THEN Panic("interface conversion: interface {} is nil")
    ELSE IF ~d.top[name].table
         THEN Panic("interface conversion: interface {} is not a map")
    ELSE LET others == {s \in DOMAIN d.top : s # name /\ d.top[s].table}
         IN  IF others = {} THEN Ok(MapOf(d.top[name].kv))
             ELSE Ok(MapOf(d.top[name].kv @@ d.top[CHOOSE s \in others : TRUE].kv))

\* the section of the decoded file d that Load hands to bind for environment
\* name: a failed type assertion panics
sectionOf(d, name) ==
    IF d.nil THEN Ok(NilMap)
    ELSE IF name \notin DOMAIN d.top
         THEN Panic("interface conversion: interface {} is nil")
    ELSE IF ~d.top[name].table
         THEN Panic("interface conversion: interface {} is not a map")
    ELSE Ok(MapOf(d.top[name].kv))

\* the element of a one-element set: { e(x) : x \in {v} } names v once in e
The(S) == CHOOSE x \in S : TRUE

\* Bound, writing the zero value when no source has the key
BoundZeroing(src, r, old, key, ge, cf) ==
    [src |-> src, st |-> r.st,
     v |-> IF src = "none" THEN Blank ELSE IF r.st = "ok" THEN r.v ELSE old,
     cause |-> r.cause, key |-> key, getenv |-> ge, config |-> cf]

\* what an iteration of bind's loop reports: the source used, the outcome r of
\* the conversion, the field's value after it, and the lookups made
Bound(src, r, old, key, ge, cf) ==
    [src |-> src, st |-> r.st, v |-> IF r.st = "ok" THEN r.v ELSE old,
     cause |-> r.cause, key |-> key, getenv |-> ge, config |-> cf]

\* bindField, with the file consulted before the environment
bindFieldFileFirst(prefix, f, old, config) ==
    The({ IF Len(key) = 0 THEN Bound("skip", Ok(old), old, key, {}, {})
          ELSE The({ The({
                 IF key \in DOMAIN config.kv
                 THEN The({ Bound("file", r, old, key, {}, {key}) :
                            r \in {assignFromIntf(config.kv[key], f.Type)} })
                 ELSE IF Len(envVal) # 0
                 THEN The({ Bound("env", r, old, key, {name}, {key}) :
                            r \in {assignFromEnv(envVal, f.Type)} })
                 ELSE Bound("none", Ok(old), old, key, {name}, {key}) :
                 envVal \in {Getenv(name)} }) :
               name \in {envKeyOf(prefix, key)} }) :
          key \in {getKeyName(f)} })

\* one iteration of bind's loop, for field f holding old under configuration
\* config: what becomes of the field, and the lookups made
bindField(prefix, f, old, config) ==
    The({ IF Len(key) = 0 THEN Bound("skip", Ok(old), old, key, {}, {})
          ELSE The({ The({
                 IF Len(envVal) # 0
                 THEN The({ Bound("env", r, old, key, {name}, {}) :
                            r \in {assignFromEnv(envVal, f.Type)} })
                 ELSE IF key \in DOMAIN config.kv
                 THEN The({ Bound("file", r, old, key, {name}, {key}) :
                            r \in {assignFromIntf(config.kv[key], f.Type)} })
                 ELSE Bound("none", Ok(old), old, key, {name}, {key}) :
                 envVal \in {Getenv(name)} }) :
               name \in {envKeyOf(prefix, key)} }) :
          key \in {getKeyName(f)} })

\* bindContinues, going on after an error too
bindContinuesPastError(st) == st \in {"ok", "err"}

\* whether bind goes on to the next field after an iteration that ended st
bindContinues(st) == st = "ok"

Done(res, e) ==
    /\ pc' = "done"
    /\ result' = res
    /\ err' = e

\* Load, lines 50-58
LoadEntry ==
    /\ pc = "Load"
    /\ LET chk == checkTarget(c)
       IN  \/ /\ chk = "panic"
              /\ Done("panic", NoErr)
           \/ /\ chk = "error"
              /\ Done("error", [kind |-> "schema", key |-> <<>>,
                                cause |-> "'c' must be a pointer to a struct"])
           \/ /\ chk = "ok"
              /\ pc' = "decode"
              /\ UNCHANGED <<result, err>>
    /\ UNCHANGED <<c, typ, val, val0, environ, file, envPrefix, env, sizeOfInt,
                   i, m, fi, getenvLog, configLog, decodeCalls>>
    /\ UNCHANGED camelVars
    /\ UNCHANGED convVars

\* Load, lines 60-64
Decode ==
    /\ pc = "decode"
    /\ decodeCalls' = decodeCalls + 1
    /\ i' = [nil |-> file.nil, top |-> file.top]
    /\ \/ /\ decodeFails(file.err)
          /\ Done("error", [kind |-> "decode", key |-> <<>>, cause |-> file.err])
       \/ /\ ~decodeFails(file.err)
          /\ pc' = "extract"
          /\ UNCHANGED <<result, err>>
    /\ UNCHANGED <<c, typ, val, val0, environ, file, envPrefix, env, sizeOfInt,
                   m, fi, getenvLog, configLog>>
    /\ UNCHANGED camelVars
    /\ UNCHANGED convVars

\* Load, lines 66-75
Extract ==
    /\ pc = "extract"
    /\ LET sec == sectionOf(i, env)
       IN  \/ /\ sec.st = "panic"
              /\ Done("panic", NoErr)
              /\ UNCHANGED <<m, fi>>
           \/ /\ sec.st = "ok"
              /\ m' = sec.v
              /\ fi' = 1
              /\ pc' = "bind"
              /\ UNCHANGED <<result, err>>
    /\ UNCHANGED <<c, typ, val, val0, environ, file, envPrefix, env, sizeOfInt,
                   i, getenvLog, configLog, decodeCalls>>
    /\ UNCHANGED camelVars
    /\ UNCHANGED convVars

\* bind, one iteration of the loop of lines 80-106
BindField ==
    /\ pc = "bind"
    /\ fi <= Len(typ)
    /\ \E b \in {bindField(envPrefix, typ[fi], val[fi], m)} :
           /\ val' = [val EXCEPT ![fi] = b.v]
           /\ getenvLog' = getenvLog \cup {<<fi, x>> : x \in b.getenv}
           /\ configLog' = configLog \cup {<<fi, x>> : x \in b.config}
           /\ \/ /\ bindContinues(b.st)
                 /\ fi' = fi + 1
                 /\ UNCHANGED <<pc, result, err>>
              \/ /\ ~bindContinues(b.st)
                 /\ b.st = "err"
                 /\ Done("error", [kind |-> "assign", key |-> b.key, cause |-> b.cause])
                 /\ UNCHANGED fi
              \/ /\ ~bindContinues(b.st)
                 /\ b.st = "panic"
                 /\ Done("panic", NoErr)
                 /\ UNCHANGED fi
    /\ UNCHANGED <<c, typ, val0, environ, file, envPrefix, env, sizeOfInt,
                   i, m, decodeCalls>>
    /\ UNCHANGED camelVars
    /\ UNCHANGED convVars

\* bind, line 108
BindReturn ==
    /\ pc = "bind"
    /\ fi > Len(typ)
    /\ Done("nil", NoErr)
    /\ UNCHANGED <<c, typ, val, val0, environ, file, envPrefix, env, sizeOfInt,
                   i, m, fi, getenvLog, configLog, decodeCalls>>
    /\ UNCHANGED camelVars
    /\ UNCHANGED convVars

---------------------------------------------------------------------------
(* The inputs Load is called with *)

\* struct fields: a name, the value of the shift tag (empty when absent), a type
FieldPool ==
    << [Name |-> <<"S", "t", "r">>, Tag |-> <<>>, Type |-> "string"],
       [Name |-> <<"I", "D", "N", "u", "m">>, Tag |-> <<>>, Type |-> "int"],
       [Name |-> <<"O", "n">>, Tag |-> <<>>, Type |-> "bool"],
       [Name |-> <<"A", "t">>, Tag |-> <<>>, Type |-> "time.Time"],
       [Name |-> <<"D", "u", "r">>, Tag |-> <<>>, Type |-> "time.Duration"],
       [Name |-> <<"A", "l", "t">>, Tag |-> <<"i", "d", "_", "n", "u", "m">>, Type |-> "string"],
       [Name |-> <<"S", "k", "i", "p">>, Tag |-> <<"-">>, Type |-> "string"],
       [Name |-> <<"O", "d", "d">>, Tag |-> <<>>, Type |-> "int32"] >>

\* the value the caller put in a field of type ty before calling Load
PreOf(ty) ==
    CASE ty = "string"        -> VString(<<"o", "l", "d">>)
      [] ty = "bool"          -> VBool(TRUE)
      [] ty = "time.Time"     -> VTime(<<2000, 1, 1, 0, 0, 0>>)
      [] ty = "float64"       -> VFloat(<<15, 1>>)
      [] ty = "[]string"      -> VStrings(<<<<"o", "l", "d">>>>)
      [] OTHER                -> VInt(ty, Small64(7))

\* struct types of at most n fields, no field twice
StructTypes(n) ==
    UNION { { [k \in 1..len |-> FieldPool[pick[k]]] :
                pick \in { q \in [1..len -> 1..Len(FieldPool)] :
                             \A a, b \in 1..len : a # b => q[a] # q[b] } } :
            len \in 0..n }

TimeText == <<"2", "0", "0", "6", "-", "0", "1", "-", "0", "2", "T", "1", "5", ":", "0", "4", ":", "0", "5", "Z">>

TimeValue == <<2006, 1, 2, 15, 4, 5>>

\* process environments
Environs ==
    << \* nothing set
       <<>>,
       \* every key set to a value of its field's type; under the prefix P other
       \* values, one of them malformed
       (<<"S", "T", "R">> :> <<"n", "e", "w">>) @@ (<<"I", "D", "_", "N", "U", "M">> :> <<"-", "5">>) @@ (<<"O", "N">> :> <<"f", "a", "l", "s", "e">>)
         @@ (<<"A", "T">> :> TimeText) @@ (<<"D", "U", "R">> :> <<"1", "5", "s">>) @@ (<<"S", "K", "I", "P">> :> <<"n", "e", "w">>)
         @@ (<<"O", "D", "D">> :> <<"5">>)
         @@ (<<"P", "_", "S", "T", "R">> :> <<"p", "r", "e">>) @@ (<<"P", "_", "I", "D", "_", "N", "U", "M">> :> <<"4", "2">>)
         @@ (<<"P", "_", "O", "N">> :> <<"y", "e", "s">>) @@ (<<"P", "_", "S", "K", "I", "P">> :> <<"p", "r", "e">>),
       \* some keys set, some to values that do not parse, or only on 64 bits
       (<<"S", "T", "R">> :> <<"n", "e", "w">>) @@ (<<"I", "D", "_", "N", "U", "M">> :> <<"2", "1", "4", "7", "4", "8", "3", "6", "4", "8">>) @@ (<<"A", "T">> :> <<"x">>)
         @@ (<<"P", "_", "A", "T">> :> TimeText) @@ (<<"P", "_", "D", "U", "R">> :> <<"5">>)
         @@ (<<"P", "_", "I", "D", "_", "N", "U", "M">> :> <<"x">>) >>

Section(kv) == [table |-> TRUE, kv |-> kv]

\* a top-level key of the file that holds a scalar, not a table
Scalar == [table |-> FALSE, kv |-> <<>>]

Decoded(top) == [err |-> "nil", nil |-> FALSE, top |-> top]

\* what the decoder returns: an error and nothing decoded, or the file's tables
Files ==
    << [err |-> "notexist", nil |-> TRUE, top |-> <<>>],
       [err |-> "other", nil |-> TRUE, top |-> <<>>],
       \* dev holds a value of the right kind under every key, prod mostly of a wrong kind
       Decoded(
         ("dev" :> Section(
            (<<"s", "t", "r">> :> VString(<<"c", "f", "g">>)) @@ (<<"i", "d", "_", "n", "u", "m">> :> VInt("int64", Int64Of(-5)))
            @@ (<<"o", "n">> :> VBool(FALSE)) @@ (<<"a", "t">> :> VTime(TimeValue))
            @@ (<<"d", "u", "r">> :> VString(<<"1", "5", "s">>)) @@ (<<"s", "k", "i", "p">> :> VString(<<"c", "f", "g">>))
            @@ (<<"o", "d", "d">> :> VInt("int64", Small64(5)))))
         @@ ("prod" :> Section(
            (<<"s", "t", "r">> :> VInt("int64", Small64(5))) @@ (<<"i", "d", "_", "n", "u", "m">> :> VString(<<"b", "a", "d">>))
            @@ (<<"o", "n">> :> VBool(FALSE)) @@ (<<"a", "t">> :> VString(TimeText))
            @@ (<<"d", "u", "r">> :> VInt("int64", Small64(15))) @@ (<<"s", "k", "i", "p">> :> VString(<<"b", "a", "d">>))))),
       \* dev holds one key, prod values at the edges
       Decoded(
         ("dev" :> Section((<<"s", "t", "r">> :> VString(<<"c", "f", "g">>))))
         @@ ("prod" :> Section(
            (<<"s", "t", "r">> :> VString(<<"b", "a", "d">>)) @@ (<<"i", "d", "_", "n", "u", "m">> :> VInt("int64", Pow31))
            @@ (<<"d", "u", "r">> :> VString(<<"x">>)) @@ (<<"o", "n">> :> VBool(FALSE))
            @@ (<<"a", "t">> :> VTable)))),
       \* neither dev nor prod
       Decoded("test" :> Section((<<"s", "t", "r">> :> VString(<<"b", "a", "d">>)))),
       \* an empty file
       Decoded(<<>>),
       \* dev is a scalar, prod an empty table
       Decoded(("dev" :> Scalar) @@ ("prod" :> Section(<<>>))) >>

Prefixes == << <<>>, <<"p">> >>

EnvNames == {"dev", "prod"}

Shapes == {"*struct", "struct", "*int", "int", "nil"}

Init ==
    /\ pc = "Load"
    /\ c \in Shapes
    /\ typ \in IF c = "*struct" THEN StructTypes(MaxFields) ELSE {<<>>}
    /\ val = [k \in 1..Len(typ) |-> PreOf(typ[k].Type)]
    /\ val0 = val
    /\ \E k \in 1..Len(Environs) : environ = Environs[k]
    /\ \E k \in 1..Len(Files) : file = Files[k]
    /\ \E k \in 1..Len(Prefixes) : envPrefix = Prefixes[k]
    /\ env \in EnvNames
    /\ sizeOfInt \in {4, 8}
    /\ i = [nil |-> TRUE, top |-> <<>>]
    /\ m = NilMap
    /\ fi = 0
    /\ result = "none"
    /\ err = NoErr
    /\ getenvLog = {}
    /\ configLog = {}
    /\ decodeCalls = 0
    /\ camelIn = <<>>
    /\ camelOut = <<>>
    /\ camelPc = "ret"
    /\ convFn = "int64ToInt"
    /\ convIn = Zero64
    /\ convOut = Ok(Blank)
    /\ convPc = "ret"

Next == LoadEntry \/ Decode \/ Extract \/ BindField \/ BindReturn

Spec == Init /\ [][Next]_vars

---------------------------------------------------------------------------
(* toCamel on its own *)

\* the characters identifiers are drawn from: letters of both cases, a digit,
\* the underscore
Alphabet == {"a", "b", "A", "B", "1", "_"}

\* Go identifiers of at most n characters over Alphabet
Idents(n) ==
    UNION { { s \in [1..len -> Alphabet] : ~IsDigit(s[1]) } : len \in 1..n }

\* the names of TestToCamel
TestNames ==
    { <<"o", "n", "e", "T", "w", "o">>,
      <<"O", "n", "e", "T", "w", "o">>,
      <<"O", "n", "e", "T", "W", "O", "T", "h", "r", "e", "e">>,
      <<"O", "N", "E", "T", "W", "O", "T", "h", "r", "e", "e">>,
      <<"T", "e", "s", "t", "O", "N", "E">>,
      <<"T", "e", "s", "t", "O", "n", "e", "T", "W", "O">>,
      <<"T", "e", "s", "t", "O">>,
      <<"T", "e", "s", "t", "O", "N">>,
      <<"T", "e", "s", "t", "O", "n">>,
      <<"T", "E", "S", "T">> }

InitCamel ==
    /\ pc = "done"
    /\ c = "nil"
    /\ typ = <<>>
    /\ val = <<>>
    /\ val0 = <<>>
    /\ environ = <<>>
    /\ file = Files[1]
    /\ envPrefix = <<>>
    /\ env = "dev"
    /\ sizeOfInt = 8
    /\ i = [nil |-> TRUE, top |-> <<>>]
    /\ m = NilMap
    /\ fi = 0
    /\ result = "none"
    /\ err = NoErr
    /\ getenvLog = {}
    /\ configLog = {}
    /\ decodeCalls = 0
    /\ camelIn \in Idents(MaxNameLen) \cup TestNames
    /\ camelOut = <<>>
    /\ camelPc = "call"
    /\ convFn = "int64ToInt"
    /\ convIn = Zero64
    /\ convOut = Ok(Blank)
    /\ convPc = "ret"

\* a call of toCamel
CallToCamel ==
    /\ camelPc = "call"
    /\ camelOut' = toCamel(camelIn)
    /\ camelPc' = "ret"
    /\ UNCHANGED camelIn
    /\ UNCHANGED loadVars
    /\ UNCHANGED convVars

NextCamel == CallToCamel

SpecCamel == InitCamel /\ [][NextCamel]_vars

---------------------------------------------------------------------------
(* Integers from the file, and the bounds converters on their own *)

\* limbs at the edges of the 16-bit range, and the 23 of the tests
EdgeLimbs == {0, 1, 23, Half - 1, Half, Base - 1}

\* 64-bit patterns at and around the bounds of every width
EdgeInts == [1..4 -> EdgeLimbs]

\* the integer field types that assignFromIntf accepts
IntTypes == {"int", "int64", "uint", "uint64"}

\* the key of the one field of the struct
IntKey == <<"n">>

\* Load on a struct of one integer field, the environment empty, the file's
\* section holding an integer under the field's key
InitInts ==
    /\ pc = "Load"
    /\ c = "*struct"
    /\ \E ty \in IntTypes : typ = <<[Name |-> <<"N">>, Tag |-> <<>>, Type |-> ty]>>
    /\ val = [k \in 1..Len(typ) |-> PreOf(typ[k].Type)]
    /\ val0 = val
    /\ environ = Environs[1]
    /\ \E x \in EdgeInts : file = Decoded("dev" :> Section(IntKey :> VInt("int64", x)))
    /\ envPrefix = <<>>
    /\ env = "dev"
    /\ sizeOfInt \in {4, 8}
    /\ i = [nil |-> TRUE, top |-> <<>>]
    /\ m = NilMap
    /\ fi = 0
    /\ result = "none"
    /\ err = NoErr
    /\ getenvLog = {}
    /\ configLog = {}
    /\ decodeCalls = 0
    /\ camelIn = <<>>
    /\ camelOut = <<>>
    /\ camelPc = "ret"
    /\ convFn = "int64ToInt"
    /\ convIn = Zero64
    /\ convOut = Ok(Blank)
    /\ convPc = "ret"

SpecInts == InitInts /\ [][Next]_vars

InitBounds ==
    /\ pc = "done"
    /\ c = "nil"
    /\ typ = <<>>
    /\ val = <<>>
    /\ val0 = <<>>
    /\ environ = <<>>
    /\ file = Files[1]
    /\ envPrefix = <<>>
    /\ env = "dev"
    /\ sizeOfInt \in {4, 8}
    /\ i = [nil |-> TRUE, top |-> <<>>]
    /\ m = NilMap
    /\ fi = 0
    /\ result = "none"
    /\ err = NoErr
    /\ getenvLog = {}
    /\ configLog = {}
    /\ decodeCalls = 0
    /\ camelIn = <<>>
    /\ camelOut = <<>>
    /\ camelPc = "ret"
    /\ convFn \in {"int64ToInt", "uint64ToUint"}
    /\ convIn \in EdgeInts
    /\ convOut = Ok(Blank)
    /\ convPc = "call"

\* a call of int64ToInt
CallInt64ToInt ==
    /\ convPc = "call"
    /\ convFn = "int64ToInt"
    /\ convOut' = int64ToInt(convIn)
    /\ convPc' = "ret"
    /\ UNCHANGED <<convFn, convIn>>
    /\ UNCHANGED loadVars
    /\ UNCHANGED camelVars

\* a call of uint64ToUint
CallUint64ToUint ==
    /\ convPc = "call"
    /\ convFn = "uint64ToUint"
    /\ convOut' = uint64ToUint(convIn)
    /\ convPc' = "ret"
    /\ UNCHANGED <<convFn, convIn>>
    /\ UNCHANGED loadVars
    /\ UNCHANGED camelVars

NextBounds == CallInt64ToInt \/ CallUint64ToUint

SpecBounds == InitBounds /\ [][NextBounds]_vars

---------------------------------------------------------------------------
(* What the claims speak of, stated from Load's arguments alone *)

Fields == 1..Len(typ)

\* the active environment section of the decoded file: empty when there is none
ActiveSection ==
    IF file.err = "nil" /\ env \in DOMAIN file.top /\ file.top[env].table
    THEN file.top[env].kv
    ELSE <<>>

\* the sources of a field of type ty and resolved key `key` whose environment
\* variable holds ev: whether each source has a value for it, the result of each
\* source's Value Parser, and the result of the one that takes precedence
Sources(ty, key, ev) ==
    LET hasEnv  == Len(key) # 0 /\ Len(ev) # 0
        hasFile == Len(key) # 0 /\ key \in DOMAIN ActiveSection
        envR    == IF hasEnv THEN assignFromEnv(ev, ty) ELSE Fail("unset")
        fileR   == IF hasFile THEN assignFromIntf(ActiveSection[key], ty) ELSE Fail("unset")
    IN  [key |-> key, hasEnv |-> hasEnv, hasFile |-> hasFile, env |-> envR, file |-> fileR,
         conv |-> IF hasEnv THEN envR ELSE IF hasFile THEN fileR ELSE Ok(Blank)]

\* the sources of field k
Src(k) ==
    The({ The({ Sources(typ[k].Type, key, ev) :
                ev \in {Getenv(envKeyOf(envPrefix, key))} }) :
          key \in {getKeyName(typ[k])} })

\* once Load has ended: bind has run its iteration for field k (an iteration
\* that ends bind leaves fi at its field)
Processed(k) == k <= fi

\* Load returned an error on account of field k
FailedAt(k) == result = "error" /\ err.kind = "assign" /\ fi = k

ConfigReadFor(k) == \E e \in configLog : e[1] = k

GetenvFor(k) == \E e \in getenvLog : e[1] = k

---------------------------------------------------------------------------
(* The claims *)

C2_UnsetFieldKept ==
    pc = "done" =>
    \A k \in Fields : \A x \in {Src(k)} :
        (Len(x.key) # 0 /\ ~x.hasEnv /\ ~x.hasFile) =>
            /\ val[k] = val0[k]
            /\ ~FailedAt(k)

\* Load returned nil having processed a pre-populated field that no source
\* names, and having bound another field
C2_Witness ==
    /\ pc = "done"
    /\ result = "nil"
    /\ \E k, j \in Fields : \E x \in {Src(k)} :
          /\ Len(x.key) # 0 /\ ~x.hasEnv /\ ~x.hasFile
          /\ Processed(k) /\ GetenvFor(k) /\ ConfigReadFor(k)
          /\ val[k] = PreOf(typ[k].Type)
          /\ val[j] # val0[j]

\* C3: a field tagged "-" resolves to the empty key, and when Load has ended no
\* source was read for it and it holds its pre-call value, whatever the environment and the file hold
\* under its derived name.
C3_OmitNeverBound ==
    pc = "done" =>
    \A k \in Fields :
        typ[k].Tag = <<"-">> =>
            /\ Len(getKeyName(typ[k])) = 0
            /\ val[k] = val0[k]
            /\ ~GetenvFor(k)
            /\ ~ConfigReadFor(k)

\* Load returned nil past a field tagged "-" whose derived name both the
\* environment and the active section hold a value for
C3_Witness ==
    /\ pc = "done"
    /\ result = "nil"
    /\ \E k \in Fields :
          /\ typ[k].Tag = <<"-">>
          /\ Processed(k)
          /\ Len(Getenv(envKeyOf(envPrefix, toCamel(typ[k].Name)))) # 0
          /\ toCamel(typ[k].Name) \in DOMAIN ActiveSection
          /\ val[k] = val0[k]

\* C4: when the file decodes but has no top-level entry named env, Load does
\* not crash: it ends with nil, or with the error of an environment value that
\* does not parse, and every field holds its environment value or its pre-call
\* value.
C4_MissingSectionBindsEnvOnly ==
    (pc = "done" /\ c = "*struct" /\ file.err = "nil" /\ env \notin DOMAIN file.top) =>
        /\ result \in {"nil", "error"}
        /\ result = "error" => \E k \in Fields : Src(k).hasEnv /\ Src(k).env.st = "err"
        /\ \A k \in Fields : \A x \in {Src(k)} :
              \/ val[k] = val0[k]
              \/ x.hasEnv /\ x.env.st = "ok" /\ val[k] = x.env.v

\* C5: for every target that is not a pointer to a struct, Load returns the
\* schema error, does not crash, and has called neither the decoder nor
\* os.Getenv.
C5_BadTargetIsSchemaError ==
    (pc = "done" /\ c # "*struct") =>
        /\ result = "error"
        /\ err.kind = "schema"
        /\ decodeCalls = 0
        /\ getenvLog = {}

\* C6: when the decoder reports that the file does not exist, Load does not
\* return that error: it binds with an empty file mapping, so that each field
\* holds the parsed value of its non-empty environment variable or its pre-call
\* value, and Load returns nil when every such environment value parses.
C6_MissingFileIsNoError ==
    (pc = "done" /\ c = "*struct" /\ file.err = "notexist") =>
        /\ decodeCalls = 1
        /\ result \in {"nil", "error"}
        /\ result = "error" => err.kind = "assign"
        /\ m.nil
        /\ \A k \in Fields : \A x \in {Src(k)} :
              \/ val[k] = val0[k]
              \/ x.hasEnv /\ x.env.st = "ok" /\ val[k] = x.env.v
        /\ (\A k \in Fields : \A x \in {Src(k)} : x.hasEnv => x.env.st = "ok") =>
              /\ result = "nil"
              /\ \A k \in Fields : \A x \in {Src(k)} : x.hasEnv => val[k] = x.env.v

\* Load returned nil for a file that does not exist, having bound a field from
\* the environment and left another, which the environment does not name
C6_Witness ==
    /\ pc = "done"
    /\ file.err = "notexist"
    /\ result = "nil"
    /\ \E k, j \in Fields : \E x \in {Src(k)} : \E y \in {Src(j)} :
          /\ x.hasEnv /\ val[k] = x.env.v /\ val[k] # val0[k]
          /\ Len(y.key) # 0 /\ ~y.hasEnv /\ val[j] = val0[j]

\* C7: bind processes the fields in declaration order and stops at the first
\* field whose value does not convert: Load returns an error that carries that
\* field's key, the fields before it hold what was bound to them, the field
\* and those after it hold their pre-call values, and no source was consulted
\* for the fields after it.
C7_StopsAtFirstError ==
    (pc = "done" /\ fi >= 1) =>
        /\ \A k \in Fields :
              (Src(k).conv.st = "err" /\ \A j \in 1..(k - 1) : Src(j).conv.st = "ok") =>
                  /\ FailedAt(k)
                  /\ err.key = Src(k).key
                  /\ \A j \in 1..(k - 1) : \A y \in {Src(j)} :
                        val[j] = IF y.hasEnv \/ y.hasFile THEN y.conv.v ELSE val0[j]
                  /\ \A j \in k..Len(typ) : val[j] = val0[j]
                  /\ \A e \in getenvLog \cup configLog : e[1] <= k
        /\ (result = "error" /\ err.kind = "assign") =>
              /\ fi \in Fields
              /\ Src(fi).conv.st = "err"
              /\ \A j \in 1..(fi - 1) : Src(j).conv.st = "ok"

\* Load returned the error of a field that does not convert, after it bound
\* the field before it
C7_Witness ==
    /\ pc = "done"
    /\ \E k \in Fields :
          /\ FailedAt(k)
          /\ err.key = getKeyName(typ[k])
          /\ k > 1
          /\ val[k - 1] # val0[k - 1]
          /\ val[k] = val0[k]

\* the sections of the decoded file other than the active one
OtherSections ==
    IF file.err = "nil" THEN {s \in DOMAIN file.top : s # env /\ file.top[s].table} ELSE {}

\* C8: file-sourced values come only from the section named env: bind is
\* handed that section, and a field whose key another section holds a value
\* for is bound only from the environment or the active section, and ends Load
\* only when the value of one of these two does not convert.
C8_OnlyActiveSection ==
    pc = "done" =>
        /\ fi >= 1 => m.kv = ActiveSection
        /\ \A k \in Fields : \A x \in {Src(k)} :
              (\E s \in OtherSections : x.key \in DOMAIN file.top[s].kv) =>
                  /\ \/ val[k] = val0[k]
                     \/ (x.hasEnv \/ x.hasFile) /\ x.conv.st = "ok" /\ val[k] = x.conv.v
                  /\ FailedAt(k) => x.conv.st = "err"
                  /\ (result = "panic" /\ fi = k) => x.conv.st = "panic"

\* Load returned nil having bound a field from the active section although
\* another section holds another value under its key, and having left a field
\* whose key only another section holds
C8_Witness ==
    /\ pc = "done"
    /\ result = "nil"
    /\ \E k, j \in Fields : \E x \in {Src(k)} : \E y \in {Src(j)} :
          /\ ~x.hasEnv /\ x.hasFile
          /\ \E s \in OtherSections :
                /\ x.key \in DOMAIN file.top[s].kv
                /\ file.top[s].kv[x.key] # ActiveSection[x.key]
          /\ val[k] = x.file.v /\ val[k] # val0[k]
          /\ Len(y.key) # 0 /\ ~y.hasEnv /\ ~y.hasFile
          /\ \E s \in OtherSections : y.key \in DOMAIN file.top[s].kv
          /\ val[j] = val0[j]

\* the name the claim gives the environment variable of a key
ClaimedEnvName(key) ==
    IF Len(envPrefix) # 0 THEN ToUpper(envPrefix) \o <<"_">> \o ToUpper(key)
    ELSE ToUpper(key)

\* C9: the one environment variable consulted for a processed field is the
\* uppercase of prefix, "_" and the resolved key when the prefix is not empty,
\* and the uppercase of the key when it is; the field is bound from that
\* variable when it holds a value that parses.
C9_EnvNameIsUpperPrefixedKey ==
    pc = "done" =>
        \A k \in Fields : \A key \in {getKeyName(typ[k])} :
            (Processed(k) /\ Len(key) # 0) =>
                /\ {e[2] : e \in {g \in getenvLog : g[1] = k}} = {ClaimedEnvName(key)}
                /\ \A v \in {Getenv(ClaimedEnvName(key))} :
                      \A r \in {assignFromEnv(v, typ[k].Type)} :
                          (Len(v) # 0 /\ r.st = "ok") => val[k] = r.v

\* Load returned nil under a prefix having bound a field from the prefixed
\* variable, while the variable of the key alone holds another value
C9_Witness ==
    /\ pc = "done"
    /\ result = "nil"
    /\ Len(envPrefix) # 0
    /\ \E k \in Fields : \A key \in {getKeyName(typ[k])} :
          /\ Len(key) # 0
          /\ Len(Getenv(ToUpper(key))) # 0
          /\ Len(Getenv(ClaimedEnvName(key))) # 0
          /\ Getenv(ToUpper(key)) # Getenv(ClaimedEnvName(key))
          /\ <<k, ToUpper(key)>> \notin getenvLog
          /\ val[k] = assignFromEnv(Getenv(ClaimedEnvName(key)), typ[k].Type).v
          /\ val[k] # assignFromEnv(Getenv(ToUpper(key)), typ[k].Type).v

\* where the claim puts an underscore: before an uppercase character at k > 1
\* when the character before is not uppercase, or when it is and the character
\* is the last of its uppercase run and a lowercase character follows
ClaimedUnderscore(s, k) ==
    /\ k > 1
    /\ IsUpper(s[k])
    /\ \/ ~IsUpper(s[k - 1])
       \/ /\ IsUpper(s[k - 1])
          /\ (k = Len(s) \/ ~IsUpper(s[k + 1]))
          /\ k < Len(s)
          /\ IsLower(s[k + 1])

RECURSIVE ClaimedCamel(_, _)
\* the claimed result for the characters s[k..]
ClaimedCamel(s, k) ==
    IF k > Len(s) THEN <<>>
    ELSE (IF ClaimedUnderscore(s, k) THEN <<"_">> ELSE <<>>)
         \o <<ToLower(s[k])>> \o ClaimedCamel(s, k + 1)

\* C10: toCamel returns the characters of its argument lowercased and in order,
\* with an underscore exactly where the claim puts one.
C10_CamelAsClaimed ==
    camelPc = "ret" => camelOut = ClaimedCamel(camelIn, 1)

\* the pairs (declared field type, dynamic kind of the file value) that the file
\* Value Parser is said to accept
ValidPair(ty, kind) ==
    \/ ty = "string" /\ kind = "string"
    \/ ty = "bool" /\ kind = "bool"
    \/ ty \in {"int", "int64", "uint", "uint64"} /\ kind = "int64"
    \/ ty = "time.Duration" /\ kind = "string"
    \/ ty = "float64" /\ kind = "float64"
    \/ ty = "time.Time" /\ kind = "time.Time"
    \/ ty = "[]string" /\ kind = "[]interface {}"

\* C11: a field bound from the file whose declared type and file value are not
\* a valid combination makes Load return the conversion error ("unsupported
\* conversion <type> -> <kind>") for that field, leaves the field unassigned,
\* and does not crash.
C11_MismatchIsConversionError ==
    pc = "done" =>
        \A k \in Fields : \A x \in {Src(k)} :
            ( /\ Processed(k)
              /\ ~x.hasEnv
              /\ x.hasFile
              /\ ~ValidPair(typ[k].Type, ActiveSection[x.key].kind) ) =>
                /\ FailedAt(k)
                /\ err.cause = "unsupported conversion"
                /\ val[k] = val0[k]

\* the 64-bit integer the file holds under the key of the one field of SpecInts
FileInt == file.top["dev"].kv[IntKey].n

\* C12: an int64 field (not a duration) bound from the file receives the file's
\* 64-bit integer directly: whatever the value and the native width, Load
\* returns no error and the field equals the file value.
C12_Int64TakenDirectly ==
    (pc = "done" /\ typ[1].Type = "int64") =>
        /\ result = "nil"
        /\ val[1] = VInt("int64", FileInt)

\* the 64-bit pattern x, read as unsigned, is at most 2^32 - 1
FitsUint32(x) == x[3] = 0 /\ x[4] = 0

\* C13: an unsigned field bound from the file takes the file's int64 value
\* reinterpreted as unsigned (the same 64 bits).  A uint64 field takes every
\* value, the negative ones included.  A uint field fails only with the bounds
\* converter's overflow error: at native width 32 exactly for the reinterpreted
\* values above 2^32 - 1, at native width 64 never.
C13_UnsignedReinterprets ==
    (pc = "done" /\ typ[1].Type \in {"uint", "uint64"}) =>
        IF typ[1].Type = "uint" /\ sizeOfInt = 4 /\ ~FitsUint32(FileInt)
        THEN /\ FailedAt(1)
             /\ err.cause = "unsigned integer too big"
             /\ val[1] = val0[1]
        ELSE /\ result = "nil"
             /\ val[1] = VInt(typ[1].Type, FileInt)

\* at native width 32, Load rejected a negative file value for a uint field
C13_Witness ==
    /\ pc = "done"
    /\ typ[1].Type = "uint"
    /\ sizeOfInt = 4
    /\ IsNeg64(FileInt)
    /\ FailedAt(1)
    /\ err.cause = "unsigned integer too big"

\* the 64-bit pattern x, read as signed, lies in [-2^31, 2^31 - 1]: its upper
\* 33 bits are all equal
FitsInt32(x) ==
    \/ x[4] = 0 /\ x[3] = 0 /\ x[2] < Half
    \/ x[4] = Base - 1 /\ x[3] = Base - 1 /\ x[2] >= Half

\* whether the argument of the converter called fits the 32-bit native type
FitsNative32 ==
    IF convFn = "int64ToInt" THEN FitsInt32(convIn) ELSE FitsUint32(convIn)

\* C14: int64ToInt and uint64ToUint go by the actual native width.  At 64 bits
\* they succeed for every input and return it unchanged.  At 32 bits they
\* return an overflow error exactly when the input is outside [-2^31, 2^31 - 1]
\* (signed) or above 2^32 - 1 (unsigned), and the same number otherwise.
C14_BoundsByNativeWidth ==
    convPc = "ret" =>
        IF sizeOfInt = 8 \/ FitsNative32
        THEN /\ convOut.st = "ok"
             /\ convOut.v.n = convIn
        ELSE /\ convOut.st = "err"
             /\ convOut.cause = IF convFn = "uint64ToUint" THEN "unsigned integer too big"
                                ELSE IF IsNeg64(convIn) THEN "integer too small"
                                ELSE "integer too big"

\* at native width 32, int64ToInt returned the overflow error for 2^31
C14_Witness ==
    /\ convPc = "ret"
    /\ convFn = "int64ToInt"
    /\ sizeOfInt = 4
    /\ convIn = Pow31
    /\ convOut.st = "err"

====
